---------------------------- MODULE Spec2Model ----------------------------
(***************************************************************************)
(* Model of solutions/rust/parallel-letter-frequency/7/src/lib.rs          *)
(*                                                                         *)
(*   pub fn frequency(input: &[&str], worker_count: usize)                 *)
(*       -> HashMap<char, usize>                                           *)
(*                                                                         *)
(* The main thread spawns worker_count scoped threads, every worker counts *)
(* the letters of its chunk of the input and sends its table on an mpsc    *)
(* channel, the main thread receives worker_count tables, merges them and  *)
(* returns once thread::scope has joined every worker.                     *)
(*                                                                         *)
(* The chunk boundaries are computed in f32 (lib.rs:7,16,17); the model    *)
(* keeps the 24-bit significand of f32 and its round-to-nearest-even.      *)
(***************************************************************************)
EXTENDS Integers, Sequences, FiniteSets, TLC

(***************************************************************************)
(* Bounds of the model.                                                    *)
(***************************************************************************)
MaxWorkers == 3
MaxLines == 2

(***************************************************************************)
(* f32: 24 bits of significand (23 stored and the hidden bit).             *)
(***************************************************************************)
MantissaBits == 24

Pow2(k) == 2 ^ k

(***************************************************************************)
(* Characters.  A sample of Unicode scalar values, each with the           *)
(* properties the standard library gives it:                               *)
(*   "a"  U+0061, "A"  U+0041, "i" U+0069                                  *)
(*   "1"  U+0031 (digit), " " U+0020 (space)                               *)
(*   "sigma" U+03C3, "SIGMA" U+03A3, "sigma_final" U+03C2                  *)
(*   "I_dot" U+0130 (lowercases to the two code points U+0069 U+0307)      *)
(*   "dot_above" U+0307 (combining mark, not alphabetic)                   *)
(*   "C_dstruck" U+2102 (uppercase letter without a lowercase mapping)     *)
(***************************************************************************)
Chars == {"a", "A", "i", "1", " ", "sigma", "SIGMA", "sigma_final",
          "I_dot", "dot_above", "C_dstruck"}

\* Faulty variant of IsAlphabetic: digits pass the filter too
\* (is_alphanumeric).
IsAlphanumeric(c) == c \in {"a", "A", "i", "1", "sigma", "SIGMA", "sigma_final",
                            "I_dot", "C_dstruck"}

\* char::is_alphabetic (lib.rs:23)
IsAlphabetic(c) == c \in {"a", "A", "i", "sigma", "SIGMA", "sigma_final",
                          "I_dot", "C_dstruck"}

\* char::to_lowercase (lib.rs:25): the iterator of code points
ToLowercase(c) ==
    CASE c = "A" -> <<"a">>
      [] c = "SIGMA" -> <<"sigma">>
      [] c = "I_dot" -> <<"i", "dot_above">>
      [] OTHER -> <<c>>

\* Faulty variant of LowerFirst: the character is counted as it is, without
\* to_lowercase.
LowerFirstKeep(c) == c

\* c.to_lowercase().next().unwrap() (lib.rs:25): the first code point
LowerFirst(c) == Head(ToLowercase(c))

(***************************************************************************)
(* Tables: HashMap<char, usize> as a function whose domain is the set of   *)
(* keys present in the map.                                                *)
(***************************************************************************)
EmptyTable == [c \in {} |-> 0]

Get(t, c) == IF c \in DOMAIN t THEN t[c] ELSE 0

\* Faulty variant of Increment: the entry is created with 0 and never incremented.
IncrementInsertOnly(counts, current) ==
    [c \in DOMAIN counts \cup {current} |-> Get(counts, c)]

\* *counts.entry(current).or_insert(0) += 1 (lib.rs:27)
Increment(counts, current) ==
    [c \in DOMAIN counts \cup {current} |->
        IF c = current THEN Get(counts, c) + 1 ELSE counts[c]]

\* The fold of lib.rs:23-29 over the characters of one sentence.
RECURSIVE CountSentence(_, _)
CountSentence(sentence, counts) ==
    IF sentence = <<>> THEN counts
    ELSE LET c == Head(sentence)
         IN  IF IsAlphabetic(c)
             THEN CountSentence(Tail(sentence), Increment(counts, LowerFirst(c)))
             ELSE CountSentence(Tail(sentence), counts)

\* Folding the same sentence k times into counts: every key of the
\* sentence's own table grows by k times its count.  k = 0 inserts nothing.
CountRepeated(counts, sentence, k) ==
    IF k = 0 THEN counts
    ELSE LET t == CountSentence(sentence, EmptyTable)
         IN  [c \in DOMAIN counts \cup DOMAIN t |-> Get(counts, c) + k * Get(t, c)]

\* Faulty variant of Merge: the entry is overwritten (insert) instead of added to.
MergeOverwrite(totals, next) ==
    [c \in DOMAIN totals \cup DOMAIN next |->
        IF c \in DOMAIN next THEN next[c] ELSE totals[c]]

\* The aggregator's fold step (lib.rs:38-43): every pair of next is added
\* to totals, the entry being created with 0 when absent.
Merge(totals, next) ==
    [c \in DOMAIN totals \cup DOMAIN next |-> Get(totals, c) + Get(next, c)]

(***************************************************************************)
(* The input, &[&str].  It is kept as a sequence of runs, a run being one  *)
(* line and the number of consecutive times it occurs, so that a slice of  *)
(* more than 2^24 lines can be written down.                               *)
(***************************************************************************)
Run(line, reps) == [line |-> line, reps |-> reps]

RECURSIVE InputLen(_)
InputLen(inp) ==
    IF inp = <<>> THEN 0 ELSE Head(inp).reps + InputLen(Tail(inp))

Min(a, b) == IF a < b THEN a ELSE b
Max(a, b) == IF a > b THEN a ELSE b

(***************************************************************************)
(* f32 arithmetic.  A finite non-negative f32 value is m * 2^e with        *)
(* 0 <= m <= 2^MantissaBits; every operation is exact and then rounded to  *)
(* MantissaBits significant bits, ties to even, as IEEE 754 prescribes.    *)
(* Division by zero gives the kinds "inf" and "nan".                       *)
(***************************************************************************)
F32(m, e) == [k |-> "num", m |-> m, e |-> e]
F32Inf == [k |-> "inf", m |-> 0, e |-> 0]
F32NaN == [k |-> "nan", m |-> 0, e |-> 0]

\* a / b rounded to the nearest integer, ties to even (a >= 0, b > 0)
RoundHalfEven(a, b) ==
    LET q == a \div b
        r == a % b
    IN  IF 2 * r < b THEN q
        ELSE IF 2 * r > b THEN q + 1
        ELSE IF q % 2 = 0 THEN q ELSE q + 1

\* the position of the leading bit of n >= 1
Log2Floor(n) == CHOOSE b \in 0..30 : (n \div Pow2(b)) = 1

\* p * 2^e rounded to MantissaBits significant bits
RoundMant(p, e) ==
    IF p < Pow2(MantissaBits) THEN F32(p, e)
    ELSE LET s == Log2Floor(p) + 1 - MantissaBits
         IN  F32(RoundHalfEven(p, Pow2(s)), e + s)

\* `n as f32` for a usize n (lib.rs:7,16,17): nearest f32, ties to even
UsizeAsF32(n) == RoundMant(n, 0)

\* f32 division (lib.rs:7)
F32Div(x, y) ==
    IF y.m = 0 THEN (IF x.m = 0 THEN F32NaN ELSE F32Inf)
    ELSE IF x.m = 0 THEN F32(0, 0)
    ELSE LET lx == Log2Floor(x.m)
             ly == Log2Floor(y.m)
             \* the shift that brings the quotient into [2^(bits-1), 2^bits)
             k  == (MantissaBits - 1) - lx + ly
                   + (IF x.m * Pow2(ly) >= y.m * Pow2(lx) THEN 0 ELSE 1)
             num == IF k >= 0 THEN x.m * Pow2(k) ELSE x.m
             den == IF k >= 0 THEN y.m ELSE y.m * Pow2(-k)
         IN  F32(RoundHalfEven(num, den), x.e - y.e - k)

\* f32 multiplication (lib.rs:16,17)
F32Mul(x, y) ==
    IF x.k = "nan" \/ y.k = "nan" THEN F32NaN
    ELSE IF x.k = "inf" \/ y.k = "inf"
         THEN (IF (x.k = "num" /\ x.m = 0) \/ (y.k = "num" /\ y.m = 0)
               THEN F32NaN ELSE F32Inf)
    ELSE RoundMant(x.m * y.m, x.e + y.e)

\* f32::round, halves away from zero, of a finite value (lib.rs:16,17);
\* the result is an integer below 2^63, so `as usize` keeps it
F32Round(x) ==
    IF x.e >= 0 THEN x.m * Pow2(x.e)
    ELSE LET d == Pow2(-x.e)
         IN  (x.m + d \div 2) \div d

\* Faulty variant of ChunkSize: an empty input is divided as if it had one
\* line.
ChunkSizeAtLeastOne(len, wc) ==
    F32Div(UsizeAsF32(Max(len, 1)), UsizeAsF32(wc))

\* let chunk_size = input.len() as f32 / worker_count as f32 (lib.rs:7)
ChunkSize(len, wc) == F32Div(UsizeAsF32(len), UsizeAsF32(wc))

\* (chunk_size * n as f32).round() as usize (lib.rs:16 with n = worker_number,
\* lib.rs:17 with n = worker_number + 1)
Boundary(chunk_size, n) == F32Round(F32Mul(chunk_size, UsizeAsF32(n)))

ChunkStart(chunk_size, worker_number) == Boundary(chunk_size, worker_number)
ChunkEnd(chunk_size, worker_number) == Boundary(chunk_size, worker_number + 1)

\* chunk_end - chunk_start in usize (lib.rs:22).  When chunk_end is below
\* chunk_start the build decides: overflow checks on, the subtraction
\* panics; off, it wraps to a length above that of every slice (Huge).
Huge == Pow2(30)

\* Faulty variant of UsizeSub: the operands are exchanged.
UsizeSubSwapped(a, b) ==
    IF b >= a THEN {[panic |-> FALSE, val |-> b - a]}
    ELSE {[panic |-> TRUE, val |-> 0], [panic |-> FALSE, val |-> Huge]}

UsizeSub(a, b) ==
    IF a >= b THEN {[panic |-> FALSE, val |-> a - b]}
    ELSE {[panic |-> TRUE, val |-> 0], [panic |-> FALSE, val |-> Huge]}

\* text_letters.iter().skip(start).take(take) folded by lib.rs:23-29:
\* the lines with index in [start, start + take), off being the index of
\* the first line of inp.
RECURSIVE ChunkFold(_, _, _, _, _)
ChunkFold(inp, off, start, take, counts) ==
    IF inp = <<>> THEN counts
    ELSE LET r  == Head(inp)
             lo == Max(start, off)
             hi == Min(start + take, off + r.reps)
             n  == IF hi > lo THEN hi - lo ELSE 0
         IN  ChunkFold(Tail(inp), off + r.reps, start, take,
                       CountRepeated(counts, r.line, n))

\* Faulty variant of WorkerCounts: a worker scans at least one line.
WorkerCountsAtLeastOne(inp, chunk_start, take) ==
    ChunkFold(inp, 0, chunk_start, Max(take, 1), EmptyTable)

\* The table a worker sends (lib.rs:19-30) for the range of take lines
\* that starts at chunk_start.
WorkerCounts(inp, chunk_start, take) ==
    ChunkFold(inp, 0, chunk_start, take, EmptyTable)

\* The table worker worker_number sends when nothing panics.
WorkerTable(inp, wc, worker_number) ==
    LET chunk_size == ChunkSize(InputLen(inp), wc)
        d == CHOOSE x \in UsizeSub(ChunkEnd(chunk_size, worker_number),
                                   ChunkStart(chunk_size, worker_number)) : ~x.panic
    IN  WorkerCounts(inp, ChunkStart(chunk_size, worker_number), d.val)

\* frequency(inp, wc) as a function of its arguments (lib.rs:4-46): the
\* fold of lib.rs:35-44 with the tables arriving in the order of the
\* worker numbers.
RECURSIVE FoldTables(_, _, _, _)
FoldTables(inp, wc, n, totals) ==
    IF n = wc THEN totals
    ELSE FoldTables(inp, wc, n + 1, Merge(totals, WorkerTable(inp, wc, n)))

FrequencyOf(inp, wc) == FoldTables(inp, wc, 0, EmptyTable)

(***************************************************************************)
(* The inputs of the model.                                                *)
(***************************************************************************)
\* the lines the input is built from
Lines == { <<"a">>, <<"A", "1", "a">>, <<"1", " ">>,
           <<"sigma_final", "I_dot">>, <<"SIGMA", "C_dstruck">> }

\* sequences of at most MaxLines lines
PlainInputs ==
    UNION { [1..n -> {Run(l, 1) : l \in Lines}] : n \in 0..MaxLines }

\* numbers of empty lines put in front of them: none, as many as f32 has
\* consecutive integers, and a length in the upper half of the next binade
Paddings == {0, Pow2(MantissaBits), 3 * Pow2(MantissaBits - 1) + 8}

Inputs ==
    { (IF p = 0 THEN <<>> ELSE <<Run(<<>>, p)>>) \o x :
        p \in Paddings, x \in PlainInputs }

Workers == 0..(MaxWorkers - 1)

(***************************************************************************)
(* State.                                                                  *)
(*   input, worker_count  the arguments of the call                        *)
(*   chunk_size the f32 computed before the workers are spawned (lib.rs:7) *)
(*   mainPc     "run" (the closure of thread::scope is running),           *)
(*              "join" (the closure has returned, thread::scope waits for  *)
(*              the workers), "returned", "panicked"                       *)
(*   spawned    number of workers spawned so far (lib.rs:11-34)            *)
(*   workerPc   per worker: "idle" (not spawned), "ready", "sent",         *)
(*              "done", "panicked"                                         *)
(*   chan       the mpsc channel: the messages sent and not yet received;  *)
(*              a message carries its table and, for the record only, the  *)
(*              number of the worker that sent it                          *)
(*   totals     the accumulator of the aggregator's fold (lib.rs:36-44)    *)
(*   received   the senders of the messages received so far, in order      *)
(*   result     the value frequency returned, once mainPc = "returned"     *)
(***************************************************************************)
VARIABLES input, worker_count, chunk_size, mainPc, spawned, workerPc, chan,
          totals, received, result

vars == <<input, worker_count, chunk_size, mainPc, spawned, workerPc, chan,
          totals, received, result>>

\* what no step changes once the call has started
args == <<input, worker_count, chunk_size>>

Init ==
    /\ input \in Inputs
    /\ worker_count \in 0..MaxWorkers
    /\ chunk_size = ChunkSize(InputLen(input), worker_count)
    /\ mainPc = "run"
    /\ spawned = 0
    /\ workerPc = [w \in Workers |-> "idle"]
    /\ chan = <<>>
    /\ totals = EmptyTable
    /\ received = <<>>
    /\ result = EmptyTable

\* the receiver rx lives until the closure of thread::scope returns
RxAlive == mainPc = "run"

\* (0..worker_count).map(|worker_number| ... scope.spawn(...)).collect()
\* (lib.rs:11-34): one worker is spawned per step, in order
Spawn ==
    /\ mainPc = "run"
    /\ spawned < worker_count
    /\ workerPc' = [workerPc EXCEPT ![spawned] = "ready"]
    /\ spawned' = spawned + 1
    /\ UNCHANGED <<args, mainPc, chan, totals, received, result>>

\* The body of a worker up to tx.send(...).unwrap() (lib.rs:15-31).
WorkerSend(w) ==
    /\ workerPc[w] = "ready"
    /\ \E chunk_start \in {ChunkStart(chunk_size, w)},
          chunk_end \in {ChunkEnd(chunk_size, w)} :
         \E d \in UsizeSub(chunk_end, chunk_start) :
           IF d.panic \/ ~RxAlive
           THEN /\ workerPc' = [workerPc EXCEPT ![w] = "panicked"]
                /\ chan' = chan
           ELSE /\ workerPc' = [workerPc EXCEPT ![w] = "sent"]
                /\ chan' = Append(chan,
                      [from |-> w,
                       table |-> WorkerCounts(input, chunk_start, d.val)])
    /\ UNCHANGED <<args, mainPc, spawned, totals, received, result>>

\* println!("WORKER {worker_number} END") and the end of the thread
\* (lib.rs:32-33)
WorkerEnd(w) ==
    /\ workerPc[w] = "sent"
    /\ workerPc' = [workerPc EXCEPT ![w] = "done"]
    /\ UNCHANGED <<args, mainPc, spawned, chan, totals, received, result>>

\* Faulty variants of RecvCount: one receive too few, one too many.
RecvCountShort(wc) == wc - 1
RecvCountLong(wc) == wc + 1

\* the number of rx.recv() calls of the aggregator (lib.rs:35)
RecvCount(wc) == wc

\* Faulty variant of Recv: the message is read and left in the channel.
RecvPeek ==
    /\ mainPc = "run"
    /\ spawned = worker_count
    /\ Len(received) < RecvCount(worker_count)
    /\ chan # <<>>
    /\ totals' = Merge(totals, Head(chan).table)
    /\ received' = Append(received, Head(chan).from)
    /\ chan' = chan
    /\ UNCHANGED <<args, mainPc, spawned, workerPc, result>>

\* Faulty variant of Recv: the table received is not merged.
RecvNoMerge ==
    /\ mainPc = "run"
    /\ spawned = worker_count
    /\ Len(received) < RecvCount(worker_count)
    /\ chan # <<>>
    /\ totals' = totals
    /\ received' = Append(received, Head(chan).from)
    /\ chan' = Tail(chan)
    /\ UNCHANGED <<args, mainPc, spawned, workerPc, result>>

\* One rx.recv().unwrap() and one step of the fold (lib.rs:35-43).  recv
\* blocks while the channel is empty: the sender tx of the main thread is
\* alive as long as the closure runs, so recv never returns an error.
Recv ==
    /\ mainPc = "run"
    /\ spawned = worker_count
    /\ Len(received) < RecvCount(worker_count)
    /\ chan # <<>>
    /\ totals' = Merge(totals, Head(chan).table)
    /\ received' = Append(received, Head(chan).from)
    /\ chan' = Tail(chan)
    /\ UNCHANGED <<args, mainPc, spawned, workerPc, result>>

\* The fold has consumed its worker_count items: the closure returns
\* totals and rx, tx are dropped (lib.rs:35-45).
FoldDone ==
    /\ mainPc = "run"
    /\ spawned = worker_count
    /\ Len(received) >= RecvCount(worker_count)
    /\ mainPc' = "join"
    /\ UNCHANGED <<args, spawned, workerPc, chan, totals, received, result>>

\* Faulty variant of ScopeJoined: the threads are not joined (thread::spawn
\* instead of a scope).
ScopeNotJoined == TRUE

\* thread::scope joins the spawned threads before it returns (lib.rs:6,45)
ScopeJoined == \A w \in Workers : workerPc[w] \in {"idle", "done", "panicked"}

\* thread::scope returns the closure's value, or panics when a scoped
\* thread has panicked
ScopeReturn ==
    /\ mainPc = "join"
    /\ ScopeJoined
    /\ IF \E w \in Workers : workerPc[w] = "panicked"
       THEN mainPc' = "panicked" /\ result' = result
       ELSE mainPc' = "returned" /\ result' = totals
    /\ UNCHANGED <<args, spawned, workerPc, chan, totals, received>>

Main == Spawn \/ Recv \/ FoldDone \/ ScopeReturn
Worker(w) == WorkerSend(w) \/ WorkerEnd(w)

Next ==
    \/ Spawn
    \/ Recv
    \/ FoldDone
    \/ ScopeReturn
    \/ \E w \in Workers : WorkerSend(w)
    \/ \E w \in Workers : WorkerEnd(w)

Spec == Init /\ [][Next]_vars

\* Every thread that can take a step eventually takes one.  Which steps
\* are taken does not depend on the characters of the lines, so the fair
\* specification starts from the inputs whose lines are all "a".
FairInit ==
    /\ Init
    /\ \A i \in DOMAIN input : input[i].line \in {<<>>, <<"a">>}

FairSpec ==
    /\ FairInit
    /\ [][Next]_vars
    /\ WF_vars(Main)
    /\ \A w \in Workers : WF_vars(Worker(w))

(***************************************************************************)
(* Failing workers.  println! panics when the write to stdout fails (a     *)
(* closed pipe, a full disk), which the code does not handle: a worker can *)
(* then panic at lib.rs:15, before it has sent its table, or at lib.rs:32, *)
(* after it.  The sender tx of the main thread stays alive while the       *)
(* closure runs, so the receive of lib.rs:35 is not woken up by the death  *)
(* of a worker.                                                            *)
(***************************************************************************)
\* println!("WORKER {worker_number} START") panics (lib.rs:15)
WorkerStartPanics(w) ==
    /\ workerPc[w] = "ready"
    /\ workerPc' = [workerPc EXCEPT ![w] = "panicked"]
    /\ UNCHANGED <<args, mainPc, spawned, chan, totals, received, result>>

\* println!("WORKER {worker_number} END") panics (lib.rs:32)
WorkerEndPanics(w) ==
    /\ workerPc[w] = "sent"
    /\ workerPc' = [workerPc EXCEPT ![w] = "panicked"]
    /\ UNCHANGED <<args, mainPc, spawned, chan, totals, received, result>>

FaultNext ==
    \/ Next
    \/ \E w \in Workers : WorkerStartPanics(w)
    \/ \E w \in Workers : WorkerEndPanics(w)

\* The calls in which stdout can fail.  Which steps are taken does not
\* depend on the characters of the lines, so the inputs are those of
\* FairInit.
FaultSpec == FairInit /\ [][FaultNext]_vars

(***************************************************************************)
(* Definitions the properties are stated with.                             *)
(***************************************************************************)
Returned == mainPc = "returned"

\* the letters (characters with the Unicode property Alphabetic)
Letters == {"a", "A", "i", "sigma", "SIGMA", "sigma_final", "I_dot", "C_dstruck"}

\* the first code point of the Unicode lowercase mapping of c
LowercaseForm(c) ==
    CASE c = "A" -> "a"
      [] c = "SIGMA" -> "sigma"
      [] c = "I_dot" -> "i"
      [] OTHER -> c

\* the number of characters of line that are alphabetic and have c as the
\* first code point of their lowercase form
LineOccurrences(line, c) ==
    Cardinality({i \in DOMAIN line : line[i] \in Letters /\ LowercaseForm(line[i]) = c})

RECURSIVE Occurrences(_, _)
Occurrences(inp, c) ==
    IF inp = <<>> THEN 0
    ELSE Head(inp).reps * LineOccurrences(Head(inp).line, c) + Occurrences(Tail(inp), c)

\* the sequential reference count of the whole input
Reference(inp) ==
    [c \in {k \in Chars : Occurrences(inp, k) > 0} |-> Occurrences(inp, c)]

RECURSIVE TotalAlphabetic(_)
TotalAlphabetic(inp) ==
    IF inp = <<>> THEN 0
    ELSE Head(inp).reps
            * Cardinality({i \in DOMAIN Head(inp).line : Head(inp).line[i] \in Letters})
         + TotalAlphabetic(Tail(inp))

RECURSIVE SumOver(_, _)
SumOver(t, keys) ==
    IF keys = {} THEN 0
    ELSE LET k == CHOOSE x \in keys : TRUE
         IN  t[k] + SumOver(t, keys \ {k})

SumCounts(t) == SumOver(t, DOMAIN t)

RECURSIVE MergeReceived(_)
\* the merge of the tables of the workers named in order
MergeReceived(order) ==
    IF order = <<>> THEN EmptyTable
    ELSE Merge(MergeReceived(SubSeq(order, 1, Len(order) - 1)),
               WorkerTable(input, worker_count, order[Len(order)]))

AllPositive(t) == \A c \in DOMAIN t : t[c] >= 1

\* char::is_uppercase
IsUppercase(c) == c \in {"A", "SIGMA", "I_dot", "C_dstruck"}

\* the characters that have an other-case variant, and that variant
\* (simple case mappings of Unicode)
Cased == {"a", "A", "sigma", "SIGMA", "sigma_final", "I_dot"}
OtherCase(c) ==
    CASE c = "a" -> "A"
      [] c = "A" -> "a"
      [] c = "sigma" -> "SIGMA"
      [] c = "SIGMA" -> "sigma"
      [] c = "sigma_final" -> "SIGMA"
      [] c = "I_dot" -> "i"

\* the positions <<run, index>> of the cased letters of the input
CasedPositions(inp) ==
    {p \in (DOMAIN inp) \X (1..3) :
        /\ p[2] \in DOMAIN inp[p[1]].line
        /\ inp[p[1]].line[p[2]] \in Cased}

\* the input with the letter at position p replaced by its other-case variant
SwapCase(inp, p) ==
    [inp EXCEPT ![p[1]].line[p[2]] = OtherCase(inp[p[1]].line[p[2]])]

\* the letter at p and its other-case variant have the same lowercase form
RoundTrips(inp, p) ==
    LET c == inp[p[1]].line[p[2]]
    IN  LowercaseForm(OtherCase(c)) = LowercaseForm(c)

(***************************************************************************)
(* C1.  For every input and every worker_count >= 1 the mapping returned   *)
(* by frequency is the sequential reference count of the whole input.      *)
(* Stated as the claim states it; violated by the code for inputs of more  *)
(* than 2^24 lines.                                                        *)
(***************************************************************************)
C1_ResultIsReference ==
    (Returned /\ worker_count >= 1) => result = Reference(input)

(***************************************************************************)
(* C2.  For a fixed input frequency returns the identical mapping for      *)
(* every worker_count >= 1: the mapping a call returned is the mapping     *)
(* of the call with any other worker count.  Stated as the claim states    *)
(* it; violated by the code.                                               *)
(***************************************************************************)
C2_WorkerCountInvariance ==
    (Returned /\ worker_count >= 1) =>
        \A wc \in 1..(MaxWorkers + 1) : result = FrequencyOf(input, wc)

(***************************************************************************)
(* C3.  Completeness: the counts of the returned mapping sum to the number *)
(* of alphabetic characters in the input.  Stated as the claim states it;  *)
(* violated by the code.                                                   *)
(***************************************************************************)
C3_Completeness ==
    (Returned /\ worker_count >= 1) => SumCounts(result) = TotalAlphabetic(input)

(***************************************************************************)
(* C4.  For a fixed input and worker_count the returned mapping is the     *)
(* same under every interleaving of the workers and every order of arrival *)
(* of their tables: it is always the mapping obtained when the tables      *)
(* arrive in the order of the worker numbers.                              *)
(***************************************************************************)
C4_ScheduleIndependent ==
    Returned => result = FrequencyOf(input, worker_count)

\* a call has returned after two different, non-empty tables arrived
\* against the order of the worker numbers
C4_Witness ==
    /\ Returned
    /\ Len(received) >= 2
    /\ received[1] > received[2]
    /\ WorkerTable(input, worker_count, received[1]) # EmptyTable
    /\ WorkerTable(input, worker_count, received[2]) # EmptyTable
    /\ WorkerTable(input, worker_count, received[1])
         # WorkerTable(input, worker_count, received[2])

(***************************************************************************)
(* C5.  With worker_count = 0 the call fails fast and returns no mapping   *)
(* as a normal result.  Stated as the claim states it; violated by the     *)
(* code, which returns the empty mapping.                                  *)
(***************************************************************************)
C5_ZeroWorkersFailsFast ==
    worker_count = 0 => ~Returned

(***************************************************************************)
(* C6.  The aggregator never returns early: once the closure has returned  *)
(* its value exactly worker_count tables have been received, one of every  *)
(* worker, none is left in the channel, and the value is the merge of all  *)
(* of them.                                                                *)
(***************************************************************************)
C6_NoEarlyReturn ==
    (mainPc \in {"join", "returned"}) =>
        /\ Len(received) = worker_count
        /\ {received[i] : i \in DOMAIN received} = 0..(worker_count - 1)
        /\ chan = <<>>
        /\ totals = MergeReceived(received)
        /\ (Returned => result = totals)

\* a call with the most workers has returned a non-empty mapping
C6_Witness ==
    /\ Returned
    /\ worker_count = MaxWorkers
    /\ Len(received) = MaxWorkers
    /\ result # EmptyTable

(***************************************************************************)
(* C7.  No worker outlives the call: when frequency returns, every one of  *)
(* the worker_count spawned workers has run to completion.                 *)
(***************************************************************************)
C7_NoWorkerOutlivesCall ==
    Returned => \A w \in 0..(worker_count - 1) : workerPc[w] = "done"

\* the call has returned with at least two workers spawned
C7_Witness ==
    /\ Returned
    /\ worker_count >= 2
    /\ \A w \in 0..(worker_count - 1) : workerPc[w] = "done"

(***************************************************************************)
(* C8.  Under fair scheduling a call with worker_count >= 1 always         *)
(* returns, and no state is reached in which the aggregator is blocked on  *)
(* a receive while no worker can still send.                               *)
(***************************************************************************)
RecvBlocked ==
    /\ mainPc = "run"
    /\ spawned = worker_count
    /\ Len(received) < worker_count
    /\ chan = <<>>

CanStillSend == \E w \in Workers : workerPc[w] = "ready"

C8_Terminates ==
    /\ []((worker_count >= 1 /\ RecvBlocked) => CanStillSend)
    /\ ((worker_count >= 1) ~> Returned)

\* a call with workers has returned after the aggregator had to wait for them
C8_Witness ==
    /\ Returned
    /\ worker_count >= 1
    /\ Len(received) = worker_count

(***************************************************************************)
(* C9.  Every entry of the returned mapping, of the aggregator's table and *)
(* of every partial table sent has a count of at least 1, and a character  *)
(* that does not occur in the input is not a key of the result.            *)
(***************************************************************************)
C9_CountsPositive ==
    /\ AllPositive(totals)
    /\ AllPositive(result)
    /\ \A i \in DOMAIN chan : AllPositive(chan[i].table)
    /\ Returned =>
          \A c \in Chars : Occurrences(input, c) = 0 => c \notin DOMAIN result

\* a non-empty mapping was returned although a worker sent an empty table
C9_Witness ==
    /\ Returned
    /\ result # EmptyTable
    /\ \E w \in 0..(worker_count - 1) :
          WorkerTable(input, worker_count, w) = EmptyTable

(***************************************************************************)
(* C10 as stated.  Replacing any letter of the input by its other-case     *)
(* variant leaves the returned mapping unchanged, and no key of the result *)
(* is an uppercase letter.  Violated: U+03C2 is counted under itself and   *)
(* its uppercase U+03A3 under U+03C3, and U+2102 is an uppercase letter     *)
(* that is its own lowercase form.                                         *)
(***************************************************************************)
C10_CaseInsensitiveAnyLetter ==
    (Returned /\ worker_count >= 1) =>
        /\ \A p \in CasedPositions(input) :
              FrequencyOf(SwapCase(input, p), worker_count) = result
        /\ \A c \in DOMAIN result : ~IsUppercase(c)

(***************************************************************************)
(* C10 as amended.  Every letter is counted under the first code point of  *)
(* its lowercase form: replacing a letter by its other-case variant leaves *)
(* the returned mapping unchanged whenever the two have the same lowercase *)
(* form, and every key of the result is its own lowercase form.            *)
(***************************************************************************)
C10_CaseInsensitive ==
    (Returned /\ worker_count >= 1) =>
        /\ \A p \in CasedPositions(input) :
              RoundTrips(input, p) =>
                 FrequencyOf(SwapCase(input, p), worker_count) = result
        /\ \A c \in DOMAIN result : LowercaseForm(c) = c

\* an input with an uppercase A was counted under the key a
C10_Witness ==
    /\ Returned
    /\ worker_count >= 1
    /\ \E p \in CasedPositions(input) : input[p[1]].line[p[2]] = "A"
    /\ "a" \in DOMAIN result
    /\ "A" \notin DOMAIN result

(***************************************************************************)
(* C11.  Non-alphabetic characters are excluded, not rejected: removing a  *)
(* non-alphabetic character from a line, or inserting one anywhere in a    *)
(* line, leaves the returned mapping unchanged; no call panics; and an     *)
(* input without any alphabetic character yields the empty mapping.        *)
(* The arguments never change during a call, so the comparison with the    *)
(* calls on the changed inputs is made once, when the call starts, against *)
(* the value every returned state is then shown to hold.                   *)
(***************************************************************************)
NonLetters == Chars \ Letters

\* the positions <<run, index>> of the non-alphabetic characters of inp
NonLetterPositions(inp) ==
    {p \in (DOMAIN inp) \X (1..3) :
        /\ p[2] \in DOMAIN inp[p[1]].line
        /\ inp[p[1]].line[p[2]] \in NonLetters}

\* inp without the character at position p
RemoveChar(inp, p) ==
    LET l == inp[p[1]].line
    IN  [inp EXCEPT ![p[1]].line = SubSeq(l, 1, p[2] - 1) \o SubSeq(l, p[2] + 1, Len(l))]

\* the places <<run, index>> where a character can be inserted: after the
\* first index characters of the line of the run
InsertPlaces(inp) ==
    {p \in (DOMAIN inp) \X (0..3) : p[2] <= Len(inp[p[1]].line)}

\* inp with c inserted at place p
InsertChar(inp, p, c) ==
    LET l == inp[p[1]].line
    IN  [inp EXCEPT ![p[1]].line = SubSeq(l, 1, p[2]) \o <<c>> \o SubSeq(l, p[2] + 1, Len(l))]

C11_NonAlphabeticExcluded ==
    /\ (worker_count >= 1) =>
          /\ mainPc # "panicked"
          /\ \A w \in Workers : workerPc[w] # "panicked"
    /\ (spawned = 0 /\ worker_count >= 1) =>
          \E unchanged \in {FrequencyOf(input, worker_count)} :
             /\ \A p \in NonLetterPositions(input) :
                   FrequencyOf(RemoveChar(input, p), worker_count) = unchanged
             /\ \A p \in InsertPlaces(input) : \A c \in NonLetters :
                   FrequencyOf(InsertChar(input, p, c), worker_count) = unchanged
    /\ (Returned /\ worker_count >= 1) =>
          /\ result = FrequencyOf(input, worker_count)
          /\ (TotalAlphabetic(input) = 0 => result = EmptyTable)

\* a call whose input has letters and non-alphabetic characters has
\* returned the count of the letters alone
C11_Witness ==
    /\ Returned
    /\ worker_count >= 1
    /\ NonLetterPositions(input) # {}
    /\ TotalAlphabetic(input) > 0
    /\ result = Reference(input)

(***************************************************************************)
(* C12: empty input.  When the input has no line, for every                *)
(* worker_count >= 1 the range of every worker is [0, 0), every worker     *)
(* still sends one table, which is empty, and frequency returns the empty  *)
(* mapping without a panic.                                                *)
(***************************************************************************)
\* the messages of worker w that are in the channel or have been received
Delivered(w) ==
    Cardinality({i \in DOMAIN chan : chan[i].from = w})
        + Cardinality({i \in DOMAIN received : received[i] = w})

C12_EmptyInput ==
    (InputLen(input) = 0 /\ worker_count >= 1) =>
        /\ \A w \in 0..(worker_count - 1) :
              /\ ChunkStart(chunk_size, w) = 0
              /\ ChunkEnd(chunk_size, w) = 0
              /\ workerPc[w] # "panicked"
              /\ workerPc[w] \in {"sent", "done"} => Delivered(w) = 1
        /\ \A i \in DOMAIN chan : chan[i].table = EmptyTable
        /\ totals = EmptyTable
        /\ mainPc # "panicked"
        /\ mainPc # "run" =>
              \A w \in 0..(worker_count - 1) : workerPc[w] \in {"sent", "done"}
        /\ Returned => result = EmptyTable

C12_Witness ==
    /\ Returned
    /\ InputLen(input) = 0
    /\ worker_count >= 2
    /\ Len(received) = worker_count
    /\ result = EmptyTable

(***************************************************************************)
(* The ranges of the workers: worker w scans the lines with index in       *)
(* [RangeStart(w), RangeEnd(w)), the boundaries it computes at lib.rs:16   *)
(* and lib.rs:17.  They are looked at once every worker has been spawned.  *)
(***************************************************************************)
RangeStart(w) == ChunkStart(chunk_size, w)
RangeEnd(w) == ChunkEnd(chunk_size, w)
RangeSize(w) == RangeEnd(w) - RangeStart(w)
total_items == InputLen(input)
AllSpawned == worker_count >= 1 /\ spawned = worker_count

(***************************************************************************)
(* C13: partition exhaustiveness.  For every number of lines and every     *)
(* worker_count >= 1 the ranges of the workers are contiguous (the end of  *)
(* one is the start of the next), do not overlap, and their union is       *)
(* exactly [0, total_items): the first starts at 0 and the last ends at    *)
(* total_items.                                                            *)
(***************************************************************************)
C13_PartitionExhaustive ==
    AllSpawned =>
        /\ RangeStart(0) = 0
        /\ \A w \in 0..(worker_count - 1) : RangeStart(w) <= RangeEnd(w)
        /\ \A w \in 0..(worker_count - 2) : RangeEnd(w) = RangeStart(w + 1)
        /\ RangeEnd(worker_count - 1) = total_items

(***************************************************************************)
(* C14: for worker index i the range starts at round(i * total_items /     *)
(* worker_count) and ends at round((i + 1) * total_items / worker_count),  *)
(* halves rounded away from zero; the boundaries do not decrease (the      *)
(* start of a range is at most its end), the first is 0 and the last is    *)
(* total_items.                                                            *)
(***************************************************************************)
\* round(a / b) of the exact quotient, halves away from zero (a >= 0, b > 0)
RoundedQuotient(a, b) == (2 * a + b) \div (2 * b)

C14_RoundedBoundaries ==
    AllSpawned =>
        /\ \A i \in 0..(worker_count - 1) :
              /\ RangeStart(i) = RoundedQuotient(i * total_items, worker_count)
              /\ RangeEnd(i) =
                    RoundedQuotient((i + 1) * total_items, worker_count)
              /\ RangeStart(i) <= RangeEnd(i)
        /\ RangeStart(0) = 0
        /\ RangeEnd(worker_count - 1) = total_items

(***************************************************************************)
(* C15: the ranges are near-equal in size.  For every number of lines and  *)
(* every worker_count >= 1 each range has floor(total_items /              *)
(* worker_count) or ceil(total_items / worker_count) lines, so the sizes   *)
(* of two ranges differ by at most 1.                                      *)
(***************************************************************************)
C15_NearEqualSizes ==
    AllSpawned =>
        /\ \A w \in 0..(worker_count - 1) :
              RangeSize(w) \in
                  { total_items \div worker_count,
                    (total_items + worker_count - 1) \div worker_count }
        /\ \A v, w \in 0..(worker_count - 1) :
              RangeSize(v) - RangeSize(w) \in {-1, 0, 1}

(***************************************************************************)
(* C16: more workers than lines.  When worker_count exceeds the number of  *)
(* lines, exactly worker_count workers are spawned all the same, some of   *)
(* them with an empty range; a worker whose range is empty does not panic, *)
(* scans no line and sends the empty table, and merging that table leaves  *)
(* the aggregator's table as it was, so the returned mapping is the count  *)
(* of the input.                                                           *)
(***************************************************************************)
EmptyRange(w) == RangeStart(w) = RangeEnd(w)

C16_MoreWorkersThanLines ==
    (worker_count >= 1 /\ worker_count > total_items) =>
        /\ spawned <= worker_count
        /\ mainPc # "run" => spawned = worker_count
        /\ \A w \in Workers : workerPc[w] # "idle" <=> w < spawned
        /\ \E empty \in {{w \in 0..(worker_count - 1) : EmptyRange(w)}} :
              /\ empty # {}
              /\ \A w \in empty :
                    /\ workerPc[w] # "panicked"
                    /\ workerPc[w] \in {"sent", "done"} => Delivered(w) = 1
                    /\ \A i \in DOMAIN chan :
                          chan[i].from = w =>
                             /\ chan[i].table = EmptyTable
                             /\ Merge(totals, chan[i].table) = totals
        /\ Returned => result = Reference(input)

C16_Witness ==
    /\ Returned
    /\ worker_count > total_items
    /\ total_items >= 1
    /\ result # EmptyTable
    /\ \E i \in DOMAIN received :
          /\ EmptyRange(received[i])
          /\ \E j \in DOMAIN received : j > i /\ ~EmptyRange(received[j])

(***************************************************************************)
(* C17: exactly-once handoff.  In every execution with worker_count >= 1   *)
(* each worker sends exactly one table, each table sent is received by the *)
(* aggregator exactly once, and the aggregator receives worker_count       *)
(* tables in all: when frequency returns the channel is empty and every    *)
(* worker's table has been merged once.                                    *)
(***************************************************************************)
C17_ExactlyOnceHandoff ==
    worker_count >= 1 =>
        /\ \A w \in Workers :
              Delivered(w) = IF workerPc[w] \in {"sent", "done"} THEN 1 ELSE 0
        /\ Len(received) <= worker_count
        /\ mainPc # "run" =>
              /\ chan = <<>>
              /\ Len(received) = worker_count
              /\ \A w \in 0..(worker_count - 1) :
                    Cardinality({i \in DOMAIN received : received[i] = w}) = 1

C17_Witness ==
    /\ Returned
    /\ worker_count >= 2
    /\ chan = <<>>
    /\ Len(received) = worker_count
    /\ received[1] > received[2]

(***************************************************************************)
(* C18: a worker never fails.  For every input and every worker_count >= 1 *)
(* no worker panics: the receiver of the channel is alive as long as a     *)
(* worker has its send ahead of it, so the unwrap of send does not fail;   *)
(* chunk_end - chunk_start does not underflow; and every letter has a      *)
(* lowercase form with a first character, so the unwrap of                 *)
(* to_lowercase().next() does not fail.  The boundaries and the characters *)
(* are fixed by the arguments, so the last two are looked at when the call *)
(* starts.                                                                 *)
(***************************************************************************)
\* the characters of the lines of inp
CharsOf(inp) ==
    UNION { {inp[i].line[j] : j \in DOMAIN inp[i].line} : i \in DOMAIN inp }

C18_WorkerNeverFails ==
    worker_count >= 1 =>
        /\ \A w \in Workers : workerPc[w] # "panicked"
        /\ \A w \in Workers :
              workerPc[w] \in {"idle", "ready"} /\ w < worker_count => RxAlive
        /\ spawned = 0 =>
              /\ \A w \in 0..(worker_count - 1) :
                    \A d \in UsizeSub(RangeEnd(w), RangeStart(w)) : ~d.panic
              /\ \A c \in CharsOf(input) :
                    IsAlphabetic(c) => ToLowercase(c) # <<>>

C18_Witness ==
    /\ Returned
    /\ worker_count >= 2
    /\ \A w \in 0..(worker_count - 1) : workerPc[w] = "done"
    /\ \E w \in 0..(worker_count - 1) : RangeSize(w) > 0
    /\ \E c \in CharsOf(input) : IsAlphabetic(c) /\ Len(ToLowercase(c)) = 2

(***************************************************************************)
(* C19: failure propagation.  If a spawned worker fails before it has      *)
(* delivered its table, the call neither blocks forever on the             *)
(* aggregator's receive nor returns a mapping built from fewer than        *)
(* worker_count tables: the failure reaches the caller.  Stated over the   *)
(* executions of FaultSpec, in which a worker can fail.                    *)
(***************************************************************************)
FailedBeforeDelivery(w) == workerPc[w] = "panicked" /\ Delivered(w) = 0

\* the aggregator waits for a table no worker is left to send
BlockedForever == RecvBlocked /\ ~CanStillSend

C19_FailurePropagates ==
    (\E w \in Workers : FailedBeforeDelivery(w)) =>
        /\ ~BlockedForever
        /\ ~Returned

(***************************************************************************)
(* C20: the aggregator's running table.  In every reachable state the      *)
(* table accumulated by the aggregator is the pointwise sum of the tables  *)
(* it has received so far: after k receives, 0 <= k <= worker_count, it is *)
(* the exact frequency table of the lines in the ranges of the k workers   *)
(* whose tables arrived, whichever workers those are.  Stated by           *)
(* induction on the receives: the table is empty while nothing has been    *)
(* received, a step that receives nothing leaves it alone, and a step that *)
(* receives the table of a worker, one not received before, adds to every  *)
(* count the occurrences in the lines of that worker's range.              *)
(***************************************************************************)
\* the occurrences of c in the lines of inp with index in [lo, hi), off
\* being the index of the first line of inp
RECURSIVE RangeOccurrences(_, _, _, _, _)
RangeOccurrences(inp, off, lo, hi, c) ==
    IF inp = <<>> THEN 0
    ELSE LET r     == Head(inp)
             first == IF lo > off THEN lo ELSE off
             last  == IF hi < off + r.reps THEN hi ELSE off + r.reps
             lines == IF last > first THEN last - first ELSE 0
         IN  lines * LineOccurrences(r.line, c)
                + RangeOccurrences(Tail(inp), off + r.reps, lo, hi, c)

\* the occurrences of c in the ranges of the workers named in arrived
RECURSIVE ArrivedOccurrences(_, _)
ArrivedOccurrences(arrived, c) ==
    IF arrived = <<>> THEN 0
    ELSE RangeOccurrences(input, 0, RangeStart(Head(arrived)),
                          RangeEnd(Head(arrived)), c)
            + ArrivedOccurrences(Tail(arrived), c)

\* totals is the frequency table of the ranges of the workers received
TotalsOfReceived ==
    /\ \A c \in Chars : Get(totals, c) = ArrivedOccurrences(received, c)
    /\ AllPositive(totals)

\* a step of the aggregator: nothing is received, or the table of worker w
ReceiveStep ==
    \/ received' = received /\ totals' = totals
    \/ \E w \in 0..(worker_count - 1) :
          /\ received' = Append(received, w)
          /\ Len(received') <= worker_count
          /\ \A i \in DOMAIN received : received[i] # w
          /\ \E lo \in {RangeStart(w)}, hi \in {RangeEnd(w)} :
                \A c \in Chars :
                   Get(totals', c) =
                      Get(totals, c) + RangeOccurrences(input, 0, lo, hi, c)
          /\ AllPositive(totals')

C20_RunningTotals ==
    /\ (received = <<>> /\ totals = EmptyTable)
    /\ [][worker_count >= 1 => ReceiveStep]_vars

\* the aggregator has merged a table that arrived before that of worker 0
\* and still waits for others
C20_Witness ==
    /\ mainPc = "run"
    /\ worker_count >= 2
    /\ Len(received) >= 1
    /\ Len(received) < worker_count
    /\ received[1] # 0
    /\ totals # EmptyTable
    /\ TotalsOfReceived

=============================================================================
